---- MODULE Spec2Model ----
(***************************************************************************)
(* Carta: a concurrent hash map, a fixed table of buckets, each an         *)
(* RwLock<Vec<(K, RwLock<Arc<V>>)>> (src/src/lib.rs).                       *)
(*                                                                         *)
(* Threads call insert / get / remove / update.  Every call is modelled    *)
(* step by step: resolve the index, take the bucket lock, scan the bucket, *)
(* take the value-cell lock, act, drop the guards.  Arc<V> values live in  *)
(* a heap of reference-counted objects; a caller's handle is a reference   *)
(* to one of them.  A panic unwinds the call: the call never returns, and  *)
(* every write guard dropped during the unwinding poisons its lock.        *)
(***************************************************************************)
EXTENDS Integers, Sequences, FiniteSets, TLC

(* ---------------------------------------------------------------- bounds *)
\* Values are 0..MaxVal; at most MaxOps calls are made in a behaviour.
MaxVal == 1
MaxOps == 3

(* --------------------------------------------------- the program's table *)
BucketCount == 2048 * 16

\* Two threads make the calls of the general specification: every pair of
\* overlapping calls, and a thread that outlives another's panic.  The third
\* thread calls only where a specification needs three parties.
Threads == {1, 2, 3}
Callers == {1, 2}
Values == 0..MaxVal

\* Three keys; under the identity Hash Provider 5 and 5 + BucketCount collide.
Keys == {5, 6, 5 + BucketCount}

\* The digest of the Hash Provider the map was built with (hash_builder):
\* an identity hasher over integer keys.
Digest(k) == k

\* Variant: a table of four buckets.
get_index_of_four(k) == Digest(k) % 4

get_index(k) == Digest(k) % BucketCount

\* The buckets some key of the model resolves to; every other bucket of the
\* table stays an empty, unlocked Vec for ever and is left out of the state.
Indices == {get_index(k) : k \in Keys}

\* One allocation per entry, one per handle a caller holds, one being made.
ArcIds == 1..(Cardinality(Keys) + Cardinality(Threads) + 1)
\* "No value": what a lookup of an absent key yields; a freed allocation
\* holds none either.
NoVal == -1
Free == NoVal

WriteOps == {"insert", "remove", "update"}
\* The transformations a caller passes to update: *v = Arc::new(g(**v)),
\* *Arc::make_mut(v) = g(**v), and one that panics.
FKinds == {"replace", "make_mut", "panic"}

VARIABLES
    buckets,   \* [Indices -> Seq(entry)], entry = (key, value cell)
    lock,      \* [Indices -> bucket RwLock state]
    heap,      \* [ArcIds -> Values \cup {Free}], the Arc<V> allocations
    pc,        \* each thread's position in its call
    op,        \* the operation a thread is in, or last returned from
    key,       \* its key argument
    arg,       \* its argument: [v: value (insert), f: transformation (update)]
    seen,      \* the value its transformation has read from the cell
    pos,       \* the position its scan matched
    ret,       \* the Option<Arc<V>> the last call returned; the caller keeps it
    fcalls,    \* how often the current call has invoked its transformation
    stable,    \* per key: the value of a returned insert no write has followed
    obs,       \* per thread: stable[key] when its get started
    inserted,  \* the keys insert has ever been called with
    ncalls     \* calls made so far

vars == <<buckets, lock, heap, pc, op, key, arg, seen, pos, ret, fcalls, stable, obs,
          inserted, ncalls>>

ghost_vars == <<fcalls, stable, obs, inserted, ncalls>>

(* ---------------------------------------------------------------- values *)
\* A call's argument: the value of an insert (v) or the transformation of an
\* update (f); get and remove have none.
NoArg == [v |-> 0, f |-> "none"]

None == [kind |-> "none", arc |-> 0, val |-> NoVal]
Some(a, v) == [kind |-> "some", arc |-> a, val |-> v]

\* An unlocked, unpoisoned RwLock.
NewLock == [w |-> 0, r |-> {}, poisoned |-> FALSE]

\* (key, RwLock::new(Arc::new(value))): the cell with its own lock state.
NewEntry(k, a) == [k |-> k, arc |-> a, vw |-> 0, vr |-> {}, vp |-> FALSE]

(* ------------------------------------------------------------------ Arc  *)
\* Arc::new: the allocation the new value is placed in.
ArcNew(h) == CHOOSE a \in ArcIds : h[a] = Free /\ \A b \in ArcIds : h[b] = Free => a <= b

CellRefs(bk, a) ==
    Cardinality({<<i, p>> \in Indices \X (1..Cardinality(Keys)) :
                    p <= Len(bk[i]) /\ bk[i][p].arc = a})

HandleRefs(rt, a) == Cardinality({t \in Threads : rt[t].kind = "some" /\ rt[t].arc = a})

\* Arc::strong_count: the cells and the callers' handles that share `a`.
strong_count(bk, rt, a) == CellRefs(bk, a) + HandleRefs(rt, a)

\* Dropping the last Arc of an allocation frees it.
Drop(h, bk, rt) == [a \in ArcIds |-> IF strong_count(bk, rt, a) = 0 THEN Free ELSE h[a]]

(* ------------------------------------------------------------------ scan *)
\* Variant: entries matched by bucket index alone.
KeyMatchByBucket(k, q) == get_index(k) = get_index(q)

\* The test the scans make on each entry: key equality.
KeyMatch(k, q) == k = q

\* Variant: a scan that falls back to the first entry when none matches.
PositionOrFirst(b, q) ==
    IF \E p \in 1..Len(b) : KeyMatch(b[p].k, q)
    THEN CHOOSE p \in 1..Len(b) : KeyMatch(b[p].k, q) /\ \A n \in 1..(p - 1) : ~KeyMatch(b[n].k, q)
    ELSE IF Len(b) > 0 THEN 1 ELSE 0

\* The first position of bucket b whose key matches q, 0 when there is none.
Position(b, q) ==
    IF \E p \in 1..Len(b) : KeyMatch(b[p].k, q)
    THEN CHOOSE p \in 1..Len(b) : KeyMatch(b[p].k, q) /\ \A n \in 1..(p - 1) : ~KeyMatch(b[n].k, q)
    ELSE 0

\* Variant: the first entry is removed, whatever the position.
VecRemoveFirst(b, p) == Tail(b)

\* Vec::remove(position): the later entries shift left.
VecRemove(b, p) == [n \in 1..(Len(b) - 1) |-> IF n < p THEN b[n] ELSE b[n + 1]]

\* What get would return for q, read off the table: the value of q's entry.
Lookup(bk, h, q) ==
    LET b == bk[get_index(q)]
        p == Position(b, q)
    IN IF p = 0 THEN NoVal ELSE h[b[p].arc]

Entries(bk) == {<<i, p>> \in Indices \X (1..Cardinality(Keys)) : p <= Len(bk[i])}

(* ------------------------------------------------------------------ Init *)
Init ==
    /\ buckets = [i \in Indices |-> <<>>]
    /\ lock = [i \in Indices |-> NewLock]
    /\ heap = [a \in ArcIds |-> Free]
    /\ pc = [t \in Threads |-> "idle"]
    /\ op = [t \in Threads |-> "none"]
    /\ key = [t \in Threads |-> 5]
    /\ arg = [t \in Threads |-> NoArg]
    /\ seen = [t \in Threads |-> 0]
    /\ pos = [t \in Threads |-> 0]
    /\ ret = [t \in Threads |-> None]
    /\ fcalls = [t \in Threads |-> 0]
    /\ stable = [k \in Keys |-> NoVal]
    /\ obs = [t \in Threads |-> NoVal]
    /\ inserted = {}
    /\ ncalls = 0

(* ------------------------------------------------------------ RwLock     *)
\* Variant: read() granted only when nobody holds the lock.
CanReadAlone(l) == l.w = 0 /\ l.r = {}

\* read() is granted while no writer holds the lock.
CanRead(l) == l.w = 0

\* Variant: write() is granted at once, whoever holds the lock.
CanWriteAlways(l) == TRUE

\* Variant: write() granted without waiting for the readers to leave.
CanWriteIgnoringReaders(l) == l.w = 0

\* write() is granted while nobody holds the lock.
CanWrite(l) == l.w = 0 /\ l.r = {}

\* Variant: the poison flag is ignored.
unwrap_ignoring_poison(l) == FALSE

\* LockResult::unwrap panics when the lock is poisoned.
unwrap_panics(l) == l.poisoned

\* The lock with t's guard on it.
Locked(l, t, o) ==
    IF o = "get" THEN [l EXCEPT !.r = l.r \cup {t}] ELSE [l EXCEPT !.w = t]

\* Variant: the guard is leaked, the lock stays held.
UnlockedNever(l, t, o, panicking) == l

\* The lock after t's guard is dropped; a write guard dropped while the
\* thread is panicking poisons the lock.
Unlocked(l, t, o, panicking) ==
    IF o = "get"
    THEN [l EXCEPT !.r = l.r \ {t}]
    ELSE [l EXCEPT !.w = 0, !.poisoned = l.poisoned \/ panicking]

\* Whether t is inside a call (neither returned nor unwound).
InCall(t) == pc[t] \notin {"idle", "panicked"}

\* A write call on k other than t's own is in progress.
WriteInProgress(t, k) ==
    \E u \in Threads \ {t} : InCall(u) /\ op[u] \in WriteOps /\ key[u] = k

(* ------------------------------------------------------------------ call *)
\* A thread calls insert(k, a), get(k), remove(k) or update(k, a); the first
\* statement of each resolves the index of k.
Call(t, o, k, a) ==
    /\ pc[t] = "idle"
    /\ pc' = [pc EXCEPT ![t] = "lock"]
    /\ op' = [op EXCEPT ![t] = o]
    /\ key' = [key EXCEPT ![t] = k]
    /\ arg' = [arg EXCEPT ![t] = IF o = "update" THEN [v |-> 0, f |-> a]
                                     ELSE [v |-> a, f |-> "none"]]
    /\ pos' = [pos EXCEPT ![t] = 0]
    /\ fcalls' = [fcalls EXCEPT ![t] = 0]
    /\ stable' = IF o \in WriteOps THEN [stable EXCEPT ![k] = NoVal] ELSE stable
    /\ obs' = [u \in Threads |->
                 IF u = t THEN (IF o = "get" THEN stable[k] ELSE NoVal)
                 ELSE IF o \in WriteOps /\ InCall(u) /\ op[u] = "get" /\ key[u] = k
                      THEN NoVal ELSE obs[u]]
    /\ inserted' = IF o = "insert" THEN inserted \cup {k} ELSE inserted
    /\ UNCHANGED <<buckets, lock, heap, seen, ret>>

\* One more call within the budget of the behaviour.
Counted == ncalls < MaxOps /\ ncalls' = ncalls + 1

CallInsert(t) == \E k \in Keys, v \in Values : Counted /\ Call(t, "insert", k, v)
CallGet(t) == \E k \in Keys : Counted /\ Call(t, "get", k, 0)
CallRemove(t) == \E k \in Keys : Counted /\ Call(t, "remove", k, 0)
CallUpdate(t) == \E k \in Keys, f \in FKinds : Counted /\ Call(t, "update", k, f)

(* ----------------------------------------------------------- bucket lock *)
\* self.buckets[index].read() / .write() is granted and unwrap succeeds.
AcquireBucket(t) ==
    LET i == get_index(key[t]) IN
    /\ pc[t] = "lock"
    /\ IF op[t] = "get" THEN CanRead(lock[i]) ELSE CanWrite(lock[i])
    /\ ~unwrap_panics(lock[i])
    /\ lock' = [lock EXCEPT ![i] = Locked(lock[i], t, op[t])]
    /\ pc' = [pc EXCEPT ![t] = "scan"]
    /\ UNCHANGED <<buckets, heap, op, key, arg, seen, pos, ret>>
    /\ UNCHANGED ghost_vars

\* The lock is granted but poisoned: unwrap panics, the guard inside the
\* error is dropped and the call unwinds.
BucketPoisoned(t) ==
    LET i == get_index(key[t]) IN
    /\ pc[t] = "lock"
    /\ IF op[t] = "get" THEN CanRead(lock[i]) ELSE CanWrite(lock[i])
    /\ unwrap_panics(lock[i])
    /\ pc' = [pc EXCEPT ![t] = "panicked"]
    /\ ret' = [ret EXCEPT ![t] = None]
    /\ heap' = Drop(heap, buckets, ret')
    /\ UNCHANGED <<buckets, lock, op, key, arg, seen, pos>>
    /\ UNCHANGED ghost_vars

(* ------------------------------------------------------------------ scan *)
\* The bucket t holds, and the entry its scan matched.
Bucket(t) == buckets[get_index(key[t])]
Matched(t) == Bucket(t)[pos[t]]

\* The call returns r: its guards are dropped, the caller's previous handle
\* is replaced by r, and allocations nobody shares any more are freed.
Return(t, r, bk, h) ==
    /\ buckets' = bk
    /\ ret' = [ret EXCEPT ![t] = r]
    /\ heap' = Drop(h, bk, ret')
    /\ lock' = [lock EXCEPT ![get_index(key[t])] = Unlocked(@, t, op[t], FALSE)]
    /\ pc' = [pc EXCEPT ![t] = "idle"]
    /\ pos' = [pos EXCEPT ![t] = 0]
    /\ UNCHANGED <<op, key, arg, seen>>

\* The call panics while holding its bucket guard: the guard is dropped
\* during the unwinding (a write guard poisons the lock), the call never
\* returns and the thread's handle is dropped with its stack.
Unwind(t, bk) ==
    /\ buckets' = bk
    /\ ret' = [ret EXCEPT ![t] = None]
    /\ heap' = Drop(heap, bk, ret')
    /\ lock' = [lock EXCEPT ![get_index(key[t])] = Unlocked(@, t, op[t], TRUE)]
    /\ pc' = [pc EXCEPT ![t] = "panicked"]
    /\ pos' = [pos EXCEPT ![t] = 0]
    /\ UNCHANGED <<op, key, arg, seen>>

\* insert: the scan ends without a match.
InsertMiss(t) ==
    /\ pc[t] = "scan" /\ op[t] = "insert"
    /\ Position(Bucket(t), key[t]) = 0
    /\ pc' = [pc EXCEPT ![t] = "push"]
    /\ UNCHANGED <<buckets, lock, heap, op, key, arg, seen, pos, ret>>
    /\ UNCHANGED ghost_vars

\* insert, no entry matched: bucket.push((key, RwLock::new(Arc::new(value)))); None
InsertPush(t) ==
    LET i == get_index(key[t])
        a == ArcNew(heap)
    IN
    /\ pc[t] = "push"
    /\ Return(t, None,
              [buckets EXCEPT ![i] = Append(@, NewEntry(key[t], a))],
              [heap EXCEPT ![a] = arg[t].v])
    /\ stable' = [stable EXCEPT ![key[t]] =
                    IF WriteInProgress(t, key[t]) THEN NoVal ELSE arg[t].v]
    /\ UNCHANGED <<fcalls, obs, inserted, ncalls>>

\* insert, update, get: the scan reaches the entry whose key equals `key`.
ScanHit(t) ==
    /\ pc[t] = "scan" /\ op[t] \in {"insert", "update", "get"}
    /\ Position(Bucket(t), key[t]) > 0
    /\ pos' = [pos EXCEPT ![t] = Position(Bucket(t), key[t])]
    /\ pc' = [pc EXCEPT ![t] = "vlock"]
    /\ UNCHANGED <<buckets, lock, heap, op, key, arg, seen, ret>>
    /\ UNCHANGED ghost_vars

\* get, remove, update: no entry matched; None.
ScanMiss(t) ==
    /\ pc[t] = "scan" /\ op[t] \in {"get", "remove", "update"}
    /\ Position(Bucket(t), key[t]) = 0
    /\ Return(t, None, buckets, heap)
    /\ UNCHANGED ghost_vars

\* remove, position found: Some(bucket.remove(position).1.into_inner().unwrap())
RemoveEntry(t) ==
    LET i == get_index(key[t])
        p == Position(Bucket(t), key[t])
        e == Bucket(t)[p]
    IN
    /\ pc[t] = "scan" /\ op[t] = "remove"
    /\ p > 0
    /\ IF e.vp
       THEN Unwind(t, [buckets EXCEPT ![i] = VecRemove(@, p)])
       ELSE Return(t, Some(e.arc, heap[e.arc]),
                   [buckets EXCEPT ![i] = VecRemove(@, p)], heap)
    /\ UNCHANGED ghost_vars

(* ------------------------------------------------------- value-cell lock *)
\* v.read() / v.write() on the matched entry's cell is granted.
AcquireValue(t) ==
    LET i == get_index(key[t])
        e == Matched(t)
        l == [w |-> e.vw, r |-> e.vr, poisoned |-> e.vp]
        g == Locked(l, t, op[t])
    IN
    /\ pc[t] = "vlock"
    /\ IF op[t] = "get" THEN CanRead(l) ELSE CanWrite(l)
    /\ IF unwrap_panics(l)
       THEN Unwind(t, buckets)
       ELSE /\ buckets' = [buckets EXCEPT ![i][pos[t]] = [e EXCEPT !.vw = g.w, !.vr = g.r]]
            /\ pc' = [pc EXCEPT ![t] = "body"]
            /\ UNCHANGED <<lock, heap, op, key, arg, seen, pos, ret>>
    /\ UNCHANGED ghost_vars

\* Variant: the value guard is leaked, the cell stays locked.
ReleasedKeepingGuard(t, a, panicking) == [Matched(t) EXCEPT !.arc = a]

\* The matched entry with t's value guard dropped and its Arc set to a.
Released(t, a, panicking) ==
    LET e == Matched(t) IN
    [e EXCEPT !.arc = a,
              !.vw = IF op[t] = "get" THEN e.vw ELSE 0,
              !.vr = e.vr \ {t},
              !.vp = e.vp \/ (panicking /\ op[t] # "get")]

(* ---------------------------------------------------------------- bodies *)
\* Variant: the new value is written into the shared allocation.
mem_replace_in_place(h, old, v) == [h |-> [h EXCEPT ![old] = v], arc |-> old]

\* Variant: the new value is dropped and the cell keeps its Arc.
mem_replace_lost(h, old, v) == [h |-> h, arc |-> old]

\* mem::replace(&mut *v, Arc::new(value)): the cell gets a new allocation,
\* the old one goes to the caller untouched.
mem_replace(h, old, v) ==
    LET a == ArcNew(h) IN [h |-> [h EXCEPT ![a] = v], arc |-> a]

\* insert, entry matched: return Some(mem::replace(&mut *v, Arc::new(value)))
InsertReplace(t) ==
    LET i == get_index(key[t])
        old == Matched(t).arc
        m == mem_replace(heap, old, arg[t].v)
    IN
    /\ pc[t] = "body" /\ op[t] = "insert"
    /\ Return(t, Some(old, m.h[old]),
              [buckets EXCEPT ![i][pos[t]] = Released(t, m.arc, FALSE)], m.h)
    /\ stable' = [stable EXCEPT ![key[t]] =
                    IF WriteInProgress(t, key[t]) THEN NoVal ELSE arg[t].v]
    /\ UNCHANGED <<fcalls, obs, inserted, ncalls>>

\* get, entry matched: return Some(v.read().unwrap().clone())
GetClone(t) ==
    LET i == get_index(key[t])
        a == Matched(t).arc
    IN
    /\ pc[t] = "body" /\ op[t] = "get"
    /\ Return(t, Some(a, heap[a]),
              [buckets EXCEPT ![i][pos[t]] = Released(t, a, FALSE)], heap)
    /\ UNCHANGED ghost_vars

\* The caller's value function inside a transformation.
G(v) == (v + 1) % (MaxVal + 1)

\* One invocation of a (non-panicking) transformation on &mut Arc<V>.
\* st = [h: heap, arc: the cell's Arc, uniq: strong_count = 1, n: invocations].
\* "replace" stores a new Arc; "make_mut" writes in place when the Arc is
\* not shared and clones into a new allocation when it is.
InvokeF(f, st) ==
    IF f = "make_mut" /\ st.uniq
    THEN [st EXCEPT !.h = [st.h EXCEPT ![st.arc] = G(st.h[st.arc])], !.n = st.n + 1]
    ELSE LET a == ArcNew(st.h) IN
         [h |-> [st.h EXCEPT ![a] = G(st.h[st.arc])], arc |-> a, uniq |-> TRUE,
          n |-> st.n + 1]

\* Variant: the transformation is invoked twice.
call_f_twice(f, st) == InvokeF(f, InvokeF(f, st))

\* Variant: the transformation writes through the Arc even when it is shared.
call_f_in_place(f, st) == InvokeF(f, [st EXCEPT !.uniq = TRUE])

\* f(&mut *v)
call_f(f, st) == InvokeF(f, st)

\* update, entry matched, the transformation returns: f(&mut *v); Some(v.clone())
UpdateApply(t) ==
    LET i == get_index(key[t])
        a == Matched(t).arc
        st == call_f(arg[t].f, [h |-> heap, arc |-> a,
                              uniq |-> strong_count(buckets, ret, a) = 1,
                              n |-> fcalls[t]])
    IN
    /\ pc[t] = "body" /\ op[t] = "update" /\ arg[t].f # "panic"
    /\ Return(t, Some(st.arc, st.h[st.arc]),
              [buckets EXCEPT ![i][pos[t]] = Released(t, st.arc, FALSE)], st.h)
    /\ fcalls' = [fcalls EXCEPT ![t] = st.n]
    /\ UNCHANGED <<stable, obs, inserted, ncalls>>

\* update, entry matched, the transformation panics: both write guards are
\* dropped during the unwinding and poison the cell and the bucket.
UpdatePanic(t) ==
    LET i == get_index(key[t]) IN
    /\ pc[t] = "body" /\ op[t] = "update" /\ arg[t].f = "panic"
    /\ Unwind(t, [buckets EXCEPT ![i][pos[t]] = Released(t, Matched(t).arc, TRUE)])
    /\ fcalls' = [fcalls EXCEPT ![t] = fcalls[t] + 1]
    /\ UNCHANGED <<stable, obs, inserted, ncalls>>

(* ------------------------------------------------------------------ Next *)
Next ==
    \E t \in Callers :
        \/ CallInsert(t)
        \/ CallGet(t)
        \/ CallRemove(t)
        \/ CallUpdate(t)
        \/ AcquireBucket(t)
        \/ BucketPoisoned(t)
        \/ InsertMiss(t)
        \/ InsertPush(t)
        \/ ScanHit(t)
        \/ ScanMiss(t)
        \/ RemoveEntry(t)
        \/ AcquireValue(t)
        \/ InsertReplace(t)
        \/ GetClone(t)
        \/ UpdateApply(t)
        \/ UpdatePanic(t)

Spec == Init /\ [][Next]_vars

(* ------------------------------------------------ what the table holds  *)
\* The places of the table that hold an entry for k, found by comparing
\* keys directly (not by the scan).
Places(bk, k) == {e \in Entries(bk) : bk[e[1]][e[2]].k = k}

\* The values the table holds for k: empty when k is absent, one value when
\* k has one entry.
Held(bk, h, k) == {h[bk[e[1]][e[2]].arc] : e \in Places(bk, k)}

\* t's step ends its call with a return (not a panic).
Returns(t) == InCall(t) /\ pc'[t] = "idle"

(* ------------------------------------------------------------------- C1 *)
\* C1: once insert(k, v) has returned, a get(k) that starts afterwards, with
\* no insert, update or remove of k in progress since that return, returns
\* a handle to v and never nothing, whatever was done to other keys.
C1_GetAfterInsert ==
    \A t \in Threads :
        (pc[t] = "idle" /\ op[t] = "get" /\ obs[t] # NoVal)
            => (ret[t].kind = "some" /\ ret[t].val = obs[t])

\* A get returned the inserted value from a bucket that also holds another key.
C1_Witness ==
    \E t \in Threads :
        /\ pc[t] = "idle" /\ op[t] = "get" /\ obs[t] # NoVal
        /\ ret[t].kind = "some"
        /\ Len(buckets[get_index(key[t])]) = 2

(* ------------------------------------------------------------------- C2 *)
\* What a step of t that returns from insert (or from get) must satisfy.
C2_InsertStep(t) ==
    LET k == key[t]
        i == get_index(k)
    IN
    /\ (Returns(t) /\ op[t] = "insert") =>
          /\ Held(buckets, heap, k) # {} =>
                /\ ret'[t].kind = "some"
                /\ Held(buckets, heap, k) = {ret'[t].val}
                /\ Len(buckets'[i]) = Len(buckets[i])
          /\ Held(buckets, heap, k) = {} => ret'[t] = None
          /\ Cardinality(Places(buckets', k)) = 1
          /\ Lookup(buckets', heap', k) = arg[t].v
    /\ (Returns(t) /\ op[t] = "get" /\ Lookup(buckets, heap, k) # NoVal) =>
          (ret'[t].kind = "some" /\ ret'[t].val = Lookup(buckets, heap, k))

\* C2: insert(k, v2) where k is present with v1 returns v1, adds no second
\* entry and replaces the value, so that get(k) then returns v2; insert(k, v)
\* where k is absent returns nothing.
C2_InsertReplaces == [][\A t \in Threads : C2_InsertStep(t)]_vars

\* An insert has returned the previous value, which differs from the new one.
C2_Witness ==
    \E t \in Threads :
        /\ pc[t] = "idle" /\ op[t] = "insert"
        /\ ret[t].kind = "some" /\ ret[t].val # arg[t].v
        /\ Lookup(buckets, heap, key[t]) = arg[t].v

(* ------------------------------------------------------------------- C3 *)
\* What a step of t that returns from remove (or from get) must satisfy.
C3_RemoveStep(t) ==
    LET k == key[t] IN
    /\ (Returns(t) /\ op[t] = "remove") =>
          /\ Held(buckets, heap, k) # {} =>
                /\ ret'[t].kind = "some"
                /\ Held(buckets, heap, k) = {ret'[t].val}
                /\ Places(buckets', k) = {}
                /\ Lookup(buckets', heap', k) = NoVal
                /\ \A q \in Keys \ {k} : Held(buckets', heap', q) = Held(buckets, heap, q)
          /\ Held(buckets, heap, k) = {} => (ret'[t] = None /\ buckets' = buckets)
    /\ (Returns(t) /\ op[t] \in {"get", "remove"} /\ Lookup(buckets, heap, k) = NoVal)
          => ret'[t] = None

\* C3: remove(k) where k is present with v returns v and deletes the entry,
\* so that get(k) and a second remove(k) return nothing; remove(k) where k
\* is absent returns nothing and leaves the map unchanged.
C3_RemoveDeletes == [][\A t \in Threads : C3_RemoveStep(t)]_vars

\* A remove returned the value of k while another key stays in k's bucket.
C3_Witness ==
    \E t \in Threads :
        /\ pc[t] = "idle" /\ op[t] = "remove" /\ ret[t].kind = "some"
        /\ Len(buckets[get_index(key[t])]) = 1

(* ------------------------------------------------------------------- C4 *)
\* What a step of t that returns from update of a present key must satisfy.
C4_UpdateStep(t) ==
    LET k == key[t] IN
    (Returns(t) /\ op[t] = "update" /\ Held(buckets, heap, k) # {}) =>
        /\ ret'[t].kind = "some"
        /\ \E v \in Values : Held(buckets, heap, k) = {v} /\ ret'[t].val = G(v)
        /\ Lookup(buckets', heap', k) = ret'[t].val
        /\ Held(buckets', heap', k) = {ret'[t].val}
        /\ fcalls'[t] = 1

\* C4: update(k, f) where k is present with v returns f(v) and stores it as
\* k's value, so that get(k) then returns f(v); f is applied exactly once.
C4_UpdateApplies == [][\A t \in Threads : C4_UpdateStep(t)]_vars

\* An update has returned the transformed value.
C4_Witness ==
    \E t \in Threads :
        /\ pc[t] = "idle" /\ op[t] = "update" /\ ret[t].kind = "some"
        /\ fcalls[t] = 1
        /\ Lookup(buckets, heap, key[t]) = ret[t].val

(* ------------------------------------------------------------------- C5 *)
\* What every step of an update call on an absent key must satisfy.
C5_UpdateStep(t) ==
    (InCall(t) /\ op[t] = "update" /\ pc'[t] # pc[t] /\ Held(buckets, heap, key[t]) = {}) =>
        /\ pc'[t] = "idle" => ret'[t] = None
        /\ fcalls'[t] = 0
        /\ buckets' = buckets
        /\ \A q \in Keys : Held(buckets', heap', q) = Held(buckets, heap, q)

\* C5: update(k, f) where k is absent returns nothing and has no effect: f
\* is never invoked, no entry is created, every bucket's entries and every
\* stored value stay as they were.
C5_UpdateAbsent == [][\A t \in Threads : C5_UpdateStep(t)]_vars

\* An update of an absent key has returned nothing from a bucket holding
\* another key.
C5_Witness ==
    \E t \in Threads :
        /\ pc[t] = "idle" /\ op[t] = "update" /\ ret[t] = None
        /\ Len(buckets[get_index(key[t])]) > 0

(* ------------------------------------------------------------------- C6 *)
\* What a step of t that returns from get of a never-inserted key must satisfy.
C6_GetStep(t) ==
    (Returns(t) /\ op[t] = "get" /\ key[t] \notin inserted) => ret'[t] = None

\* C6: a get of a key insert was never called with returns nothing,
\* whatever was done to other keys, those of the same bucket included.
C6_NeverInserted == [][\A t \in Threads : C6_GetStep(t)]_vars

\* A get of a never-inserted key returned from a bucket that holds an entry.
C6_Witness ==
    \E t \in Threads :
        /\ pc[t] = "idle" /\ op[t] = "get" /\ key[t] \notin inserted
        /\ ret[t] = None
        /\ Len(buckets[get_index(key[t])]) > 0

(* ------------------------------------------------------------------- C7 *)
\* The stress run: every call is an insert of a key no thread has inserted.
StressCall(t) ==
    \E k \in Keys \ inserted, v \in Values : Counted /\ Call(t, "insert", k, v)

StressNext ==
    \E t \in Callers :
        \/ StressCall(t)
        \/ AcquireBucket(t)
        \/ InsertMiss(t)
        \/ InsertPush(t)

SpecStress == Init /\ [][StressNext]_vars

\* C7: n distinct keys inserted concurrently, each once by one thread: no
\* insert finds its key, every insert returns nothing, and once all threads
\* have finished the map holds exactly n entries, one per key, and get of
\* each key returns the value inserted for it.
C7_ConcurrentInserts ==
    /\ \A t \in Threads : pc[t] = "scan" => Position(Bucket(t), key[t]) = 0
    /\ \A t \in Threads : (pc[t] = "idle" /\ op[t] = "insert") => ret[t] = None
    /\ (\A t \in Threads : ~InCall(t)) =>
          /\ Cardinality(Entries(buckets)) = Cardinality(inserted)
          /\ \A k \in inserted :
                /\ Cardinality(Places(buckets, k)) = 1
                /\ Lookup(buckets, heap, k) = stable[k]
          /\ \A k \in Keys \ inserted : Lookup(buckets, heap, k) = NoVal

\* Both threads have inserted, every key is in, and all calls have returned.
C7_Witness ==
    /\ inserted = Keys
    /\ \A t \in Callers : pc[t] = "idle" /\ op[t] = "insert"
    /\ \E k \in Keys : stable[k] # stable[5]

(* ------------------------------------------------------------------- C8 *)
\* C8: a value handle a caller holds (from get, insert, update or remove) is
\* never changed or freed by a later or concurrent insert, update or remove:
\* the value seen through it stays the value seen when it was obtained.
C8_HandlesStable ==
    \A t \in Threads : ret[t].kind = "some" => heap[ret[t].arc] = ret[t].val

\* A handle from get outlives its entry's value: the key now holds another
\* value or none.
C8_Witness ==
    \E t \in Threads :
        /\ pc[t] = "idle" /\ op[t] = "get" /\ ret[t].kind = "some"
        /\ Held(buckets, heap, key[t]) # {ret[t].val}
        /\ heap[ret[t].arc] = ret[t].val

(* ------------------------------------------------------------------- C9 *)
\* What a sequential map holding `held` for the key returns to the call.
Expected(o, held, r) ==
    CASE o = "update" -> IF held = {} THEN r = None
                         ELSE r.kind = "some" /\ \E v \in held : r.val = G(v)
      [] OTHER -> IF held = {} THEN r = None
                  ELSE r.kind = "some" /\ r.val \in held

\* What every step of a call of t must satisfy.
C9_Step(t) ==
    /\ Returns(t) => Expected(op[t], Held(buckets, heap, key[t]), ret'[t])
    /\ pc'[t] # pc[t] =>
          \A k2 \in Keys \ {key'[t]} : Held(buckets', heap', k2) = Held(buckets, heap, k2)

\* C9: two distinct keys of the same bucket can both be present as separate
\* entries; a call on k1 returns what k1's own entry decides and never
\* changes the presence or value of another key k2, exactly as when k2 is
\* in another bucket: keys are matched by equality.
C9_Collisions == [][\A t \in Threads : C9_Step(t)]_vars

\* Both colliding keys are present with different values after one of them
\* was written while the other was there.
C9_Witness ==
    /\ Len(buckets[get_index(5)]) = 2
    /\ Held(buckets, heap, 5) # Held(buckets, heap, 5 + BucketCount)
    /\ \E t \in Threads :
          /\ pc[t] = "idle" /\ op[t] \in {"update", "remove", "get"}
          /\ get_index(key[t]) = get_index(5)

(* ------------------------------------------------------------------ C10 *)
\* What a call of t on a poisoned bucket must satisfy.
C10_Step(t) ==
    (InCall(t) /\ lock[get_index(key[t])].poisoned) =>
        /\ CanWrite(lock[get_index(key[t])])
        /\ pc'[t] # pc[t] => pc'[t] = "panicked"

\* C10: once a thread has panicked while holding a bucket's exclusive lock,
\* every call on a key of that bucket ends in a panic: the lock is free, so
\* the call is granted it, unwrap panics, and the call's next step unwinds
\* it; it never returns nothing or a value.
C10_PoisonIsFatal == [][\A t \in Threads : C10_Step(t)]_vars

\* A get of a present key has panicked on the poisoned bucket.
C10_Witness ==
    \E t \in Threads :
        /\ pc[t] = "panicked" /\ op[t] = "get"
        /\ lock[get_index(key[t])].poisoned
        /\ Held(buckets, heap, key[t]) # {}

(* ------------------------------------------------------------------ C11 *)
\* t is between the grant of its bucket guard and the drop of it.
HoldsBucket(t) ==
    pc[t] \in {"scan", "push", "vlock", "body", "reenter", "store"}

\* t asks for its bucket's lock and the lock, as it stands, is not granted.
Refused(t) ==
    /\ pc[t] = "lock"
    /\ ~(IF op[t] = "get" THEN CanRead(lock[get_index(key[t])])
                          ELSE CanWrite(lock[get_index(key[t])]))

\* C11: while a thread holds a bucket's exclusive lock (insert, remove,
\* update), nobody else holds that lock in either mode and every other call
\* on a key of that bucket is still waiting for it; a call is refused its
\* lock only by a holder of its own bucket, never by one of another bucket.
C11_ExclusiveBucket ==
    /\ \A t \in Threads :
          (HoldsBucket(t) /\ op[t] \in WriteOps) =>
              LET i == get_index(key[t]) IN
              /\ lock[i].w = t /\ lock[i].r = {}
              /\ \A u \in Threads \ {t} :
                    (InCall(u) /\ get_index(key[u]) = i) => pc[u] = "lock"
    /\ \A i \in Indices : lock[i].w # 0 =>
          (HoldsBucket(lock[i].w) /\ get_index(key[lock[i].w]) = i)
    /\ \A t \in Threads :
          Refused(t) =>
              \E u \in Threads \ {t} :
                  HoldsBucket(u) /\ get_index(key[u]) = get_index(key[t])

\* A writer is inside bucket 5 while a call on the other key of that bucket
\* is refused the lock.
C11_Witness ==
    \E t, u \in Threads :
        /\ HoldsBucket(t) /\ op[t] \in WriteOps
        /\ Refused(u) /\ key[u] # key[t]
        /\ get_index(key[u]) = get_index(key[t])

(* ------------------------------------------------------------------ C12 *)
\* A write() on bucket i has been called and not granted: the writer is
\* queued on the lock.
WriterQueued(i) ==
    \E u \in Threads :
        /\ pc[u] = "lock" /\ op[u] \in WriteOps
        /\ get_index(key[u]) = i /\ ~CanWrite(lock[i])

\* get: read() finds a writer queued on the lock and goes to sleep behind it.
\* std::sync::RwLock leaves the priority policy to the platform: a queued
\* writer may or may not block new readers, so AcquireBucket stays enabled.
ReadParked(t) ==
    /\ pc[t] = "lock" /\ op[t] = "get"
    /\ WriterQueued(get_index(key[t]))
    /\ pc' = [pc EXCEPT ![t] = "parked"]
    /\ UNCHANGED <<buckets, lock, heap, op, key, arg, seen, pos, ret>>
    /\ UNCHANGED ghost_vars

\* The queued writers are gone: the sleeping read() is woken and retries.
ReadWoken(t) ==
    /\ pc[t] = "parked"
    /\ ~WriterQueued(get_index(key[t]))
    /\ pc' = [pc EXCEPT ![t] = "lock"]
    /\ UNCHANGED <<buckets, lock, heap, op, key, arg, seen, pos, ret>>
    /\ UNCHANGED ghost_vars

\* Three threads calling get and insert, without panics; as many calls in
\* all as there are threads.
LocksCall(t) ==
    \E o \in {"insert", "get"}, k \in Keys, v \in Values :
        /\ ncalls < Cardinality(Threads) /\ ncalls' = ncalls + 1
        /\ o = "get" => v = 0
        /\ Call(t, o, k, v)

LocksNext ==
    \E t \in Threads :
        \/ LocksCall(t)
        \/ AcquireBucket(t)
        \/ ReadParked(t)
        \/ ReadWoken(t)
        \/ InsertMiss(t)
        \/ InsertPush(t)
        \/ ScanHit(t)
        \/ ScanMiss(t)
        \/ AcquireValue(t)
        \/ InsertReplace(t)
        \/ GetClone(t)

SpecLocks == Init /\ [][LocksNext]_vars

\* t's get is being made to wait for its bucket's shared lock.
GetWaits(t) ==
    /\ op[t] = "get"
    /\ \/ Refused(t)
       \/ pc[t] = "parked" /\ WriterQueued(get_index(key[t]))

CallReenter(t) == \E k \in Keys : Counted /\ Call(t, "update", k, "reenter")

\* The transformation runs under both write guards and reaches its call
\* into the map, on a key that resolves to the bucket of `key`.
UpdateReenter(t) ==
    /\ pc[t] = "body" /\ op[t] = "update" /\ arg[t].f = "reenter"
    /\ pc' = [pc EXCEPT ![t] = "reenter"]
    /\ fcalls' = [fcalls EXCEPT ![t] = fcalls[t] + 1]
    /\ UNCHANGED <<buckets, lock, heap, op, key, arg, seen, pos, ret>>
    /\ UNCHANGED <<stable, obs, inserted, ncalls>>

\* The nested insert, get, remove or update asks for the bucket lock. Were
\* it granted the nested call would go on; it is not, and RwLock::read and
\* RwLock::write may then either block (no step) or panic ("rwlock ... would
\* result in deadlock"), which unwinds the update through both write guards.
NestedLock(t) ==
    LET i == get_index(key[t]) IN
    /\ pc[t] = "reenter"
    /\ \E o \in {"insert", "get", "remove", "update"} :
          IF (IF o = "get" THEN CanRead(lock[i]) ELSE CanWrite(lock[i]))
          THEN /\ pc' = [pc EXCEPT ![t] = "nested"]
               /\ UNCHANGED <<buckets, lock, heap, op, key, arg, seen, pos, ret>>
          ELSE Unwind(t, [buckets EXCEPT ![i][pos[t]] =
                             Released(t, Matched(t).arc, TRUE)])
    /\ UNCHANGED ghost_vars

\* Inserts make the keys present; every update re-enters.
ReenterNext ==
    \E t \in Callers :
        \/ CallInsert(t)
        \/ CallReenter(t)
        \/ AcquireBucket(t)
        \/ BucketPoisoned(t)
        \/ InsertMiss(t)
        \/ InsertPush(t)
        \/ ScanHit(t)
        \/ ScanMiss(t)
        \/ AcquireValue(t)
        \/ InsertReplace(t)
        \/ UpdateReenter(t)
        \/ NestedLock(t)

SpecReenter == Init /\ [][ReenterNext]_vars

\* C13 as stated: the thread stays at the nested lock request for ever.
C13_WaitsForever ==
    [][\A t \in Threads : pc[t] = "reenter" => pc'[t] = "reenter"]_vars

\* C13: once the transformation of update(k, f) calls back into the map on
\* a key of k's bucket, the nested call is never granted the lock the thread
\* already holds exclusively and the update never returns: the thread stays
\* at the request or panics there.
C13_Step ==
    \A t \in Threads :
        pc[t] = "reenter" =>
            /\ lock[get_index(key[t])].w = t
            /\ pc'[t] \in {"reenter", "panicked"}
            /\ ~Returns(t)

C13_ReentryNeverReturns == [][C13_Step]_vars

\* A transformation has re-entered the map, and has panicked at the nested
\* request, leaving the bucket poisoned.
C13_Witness ==
    \E t \in Threads :
        /\ pc[t] = "panicked" /\ arg[t].f = "reenter"
        /\ lock[get_index(key[t])].poisoned
        /\ fcalls[t] = 1

(* ------------------------------------------------------------------ C14 *)
\* The scenario: insert(5, v1); get(5); insert(5, v2); get(5); remove(5);
\* get(5) on the empty map, with v1 = 0 and v2 = MaxVal, and what each call
\* is to return (NoVal: nothing).
ScenarioOps == <<"insert", "get", "insert", "get", "remove", "get">>
ScenarioArgs == <<0, 0, MaxVal, 0, 0, 0>>
ScenarioResults == <<NoVal, 0, 0, MaxVal, MaxVal, NoVal>>

\* Thread 1 makes the calls of the scenario, one after the other.
ScenarioCall(t) ==
    /\ t = 1
    /\ ncalls < Len(ScenarioOps) /\ ncalls' = ncalls + 1
    /\ Call(t, ScenarioOps[ncalls + 1], 5, ScenarioArgs[ncalls + 1])

\* Thread 2 reads any key at any time; a get changes no entry.
OtherGet(t) ==
    /\ t = 2
    /\ \E k \in Keys : Call(t, "get", k, 0)
    /\ UNCHANGED ncalls

ScenarioNext ==
    \E t \in Callers :
        \/ ScenarioCall(t)
        \/ OtherGet(t)
        \/ AcquireBucket(t)
        \/ InsertMiss(t)
        \/ InsertPush(t)
        \/ ScanHit(t)
        \/ ScanMiss(t)
        \/ RemoveEntry(t)
        \/ AcquireValue(t)
        \/ InsertReplace(t)
        \/ GetClone(t)

SpecScenario == Init /\ [][ScenarioNext]_vars

\* The call of the scenario that is in progress returns what is expected.
ScenarioReturn ==
    Returns(1) =>
        IF ScenarioResults[ncalls] = NoVal
        THEN ret'[1] = None
        ELSE ret'[1].kind = "some" /\ ret'[1].val = ScenarioResults[ncalls]

\* The calls of the scenario take the lock of bucket i and no other, and
\* the entry is pushed to bucket i.
ScenarioBucket(i) ==
    /\ (pc[1] = "lock" /\ pc'[1] = "scan") =>
          (i \in Indices /\ (lock'[i].w = 1 \/ 1 \in lock'[i].r))
    /\ (pc[1] = "push" /\ pc'[1] = "idle") =>
          (i \in Indices /\ Len(buckets'[i]) = Len(buckets[i]) + 1)

C15_OneEntryPerKey ==
    \A k \in Keys : Cardinality(Places(buckets, k)) <= 1

\* Two threads were inside insert of the same key at once, both have
\* returned, and the key has its entry.
C15_Witness ==
    \E t, u \in Threads :
        /\ t # u /\ pc[t] = "idle" /\ pc[u] = "idle"
        /\ op[t] = "insert" /\ op[u] = "insert" /\ key[t] = key[u]
        /\ ret[t] = None /\ ret[u] # None
        /\ ncalls = Cardinality({t, u})
        /\ Cardinality(Places(buckets, key[t])) = 1

(* ------------------------------------------------------------------ C16 *)
\* The bucket locks t holds, in either mode, as the locks record it.
BucketLocksOf(t) == {i \in Indices : lock[i].w = t \/ t \in lock[i].r}

\* The value cells whose lock t holds, as the cells record it.
CellLocksOf(t) ==
    {e \in Entries(buckets) :
        buckets[e[1]][e[2]].vw = t \/ t \in buckets[e[1]][e[2]].vr}

\* C16: bucket lock first, then value-cell lock: a thread that holds or is
\* waiting for a value-cell lock holds the lock of the bucket that contains
\* the cell; no thread holds more than one bucket lock; no thread asks for a
\* bucket lock while it holds a value-cell lock (or any bucket lock).
C16_LockOrder ==
    \A t \in Threads :
        /\ Cardinality(BucketLocksOf(t)) <= 1
        /\ \A e \in CellLocksOf(t) : BucketLocksOf(t) = {e[1]}
        /\ pc[t] = "vlock" => BucketLocksOf(t) = {get_index(key[t])}
        /\ pc[t] = "lock" => (CellLocksOf(t) = {} /\ BucketLocksOf(t) = {})

\* A thread holds a value-cell lock inside its bucket while another thread
\* asks for the lock of that bucket, holding nothing.
C16_Witness ==
    \E t, u \in Threads :
        /\ pc[t] = "body" /\ CellLocksOf(t) # {} /\ BucketLocksOf(t) # {}
        /\ pc[u] = "lock" /\ get_index(key[u]) \in BucketLocksOf(t)

(* ------------------------------------------------------------------ C17 *)
\* One call by every thread, on any key, with transformations that return
\* (no re-entry, no panic).
LiveCall(t) ==
    /\ op[t] = "none" /\ ncalls' = ncalls + 1
    /\ \E k \in Keys :
          \/ Call(t, "insert", k, MaxVal)
          \/ Call(t, "get", k, 0)
          \/ Call(t, "remove", k, 0)
          \/ Call(t, "update", k, "make_mut")

\* The steps of a call that wait for nothing but the scheduler.
LiveStep(t) ==
    \/ InsertMiss(t)
    \/ InsertPush(t)
    \/ ScanHit(t)
    \/ ScanMiss(t)
    \/ RemoveEntry(t)
    \/ AcquireValue(t)
    \/ InsertReplace(t)
    \/ GetClone(t)
    \/ UpdateApply(t)

LiveNext == \E t \in Threads : LiveCall(t) \/ AcquireBucket(t) \/ LiveStep(t)

\* Every thread inside a call keeps running, and the bucket locks are
\* granted fairly: a request that can be granted again and again is granted.
LiveFairness ==
    \A t \in Threads : SF_vars(AcquireBucket(t)) /\ WF_vars(LiveStep(t))

SpecLive == Init /\ [][LiveNext]_vars /\ LiveFairness

\* Some thread inside a call can take a step.
SomeCallCanStep == \E t \in Threads : ENABLED (AcquireBucket(t) \/ LiveStep(t))

\* C17: without re-entrant transformations and without panics the system
\* never deadlocks (while some call is in progress some call can step) and,
\* under fair granting of the locks, every call that is made returns.
C17_EveryCallReturns ==
    /\ []((\E t \in Threads : InCall(t)) => SomeCallCanStep)
    /\ \A t \in Threads : InCall(t) ~> (pc[t] = "idle")

\* Two calls are refused the lock of the bucket a third thread is inside.
C17_Witness ==
    \E t, u \in Threads :
        /\ t # u /\ Refused(t) /\ Refused(u)
        /\ \E w \in Threads \ {t, u} :
              /\ HoldsBucket(w) /\ key[t] # key[u]
              /\ get_index(key[w]) = get_index(key[t])
              /\ get_index(key[w]) = get_index(key[u])

(* ------------------------------------------------------------------ C18 *)
\* The atomic key-to-value map the table stands for: per key the set of
\* values held (empty: absent).
Abs(bk, h) == [k \in Keys |-> Held(bk, h, k)]

\* The sequential operations on that map: the map after the call, and
\* whether r is the call's result.
SeqEffect(m, o, k, a) ==
    CASE o = "insert" -> [m EXCEPT ![k] = {a.v}]
      [] o = "remove" -> [m EXCEPT ![k] = {}]
      [] o = "update" -> [m EXCEPT ![k] = {G(v) : v \in m[k]}]
      [] OTHER -> m

SeqResult(m, o, k, r) ==
    LET out == IF o = "update" THEN {G(v) : v \in m[k]} ELSE m[k] IN
    IF out = {} THEN r = None ELSE r.kind = "some" /\ r.val \in out

\* Every call takes effect at one step between its invocation and its
\* return, the step that returns: there the map changes as the sequential
\* operation changes it and the result is the sequential result; no other
\* step changes the map.
C18_Step ==
    LET m == Abs(buckets, heap) IN
    /\ \A t \in Threads :
          Returns(t) =>
              /\ Abs(buckets', heap') = SeqEffect(m, op[t], key[t], arg[t])
              /\ SeqResult(m, op[t], key[t], ret'[t])
    /\ (\A t \in Threads : ~Returns(t)) => Abs(buckets', heap') = m

\* C18: the map is linearizable: the results of any interleaving are those
\* of the sequential execution that takes the calls in the order of their
\* returning steps, which respects every pair of calls where one returned
\* before the other was invoked.
C18_Linearizable == [][C18_Step]_vars

\* An update has returned the changed value while a call of the other
\* thread on the same key, invoked before that return, is still pending.
C18_Witness ==
    \E t, u \in Threads :
        /\ t # u /\ pc[t] = "idle" /\ op[t] = "update" /\ ret[t].kind = "some"
        /\ Held(buckets, heap, key[t]) = {ret[t].val}
        /\ pc[u] = "scan" /\ key[u] = key[t]

(* ------------------------------------------------------------------ C19 *)
\* Thread 1 makes key 5 present with some initial value; every other thread
\* then calls update(5, |v| *v = Arc::new(**v + 1)) once, and may read the
\* key before it does.
Updaters == Threads \ {1}

IncrInsert(t) ==
    /\ t = 1 /\ op[t] = "none"
    /\ \E v \in Values : Call(t, "insert", 5, v)
    /\ ncalls' = ncalls + 1

IncrGet(t) ==
    /\ t \in Updaters /\ op[t] # "update"
    /\ Held(buckets, heap, 5) # {}
    /\ Call(t, "get", 5, 0)
    /\ UNCHANGED ncalls

IncrUpdate(t) ==
    /\ t \in Updaters /\ op[t] # "update"
    /\ Held(buckets, heap, 5) # {}
    /\ Call(t, "update", 5, "incr")
    /\ ncalls' = ncalls + 1

\* The transformation reads the value behind the Arc: **v.
IncrRead(t) ==
    /\ pc[t] = "body" /\ op[t] = "update" /\ arg[t].f = "incr"
    /\ seen' = [seen EXCEPT ![t] = heap[Matched(t).arc]]
    /\ pc' = [pc EXCEPT ![t] = "store"]
    /\ fcalls' = [fcalls EXCEPT ![t] = fcalls[t] + 1]
    /\ UNCHANGED <<buckets, lock, heap, op, key, arg, pos, ret>>
    /\ UNCHANGED <<stable, obs, inserted, ncalls>>

\* The transformation stores the value it read plus one, and update returns
\* a clone of the cell's Arc: *v = Arc::new(..); Some(v.clone())
IncrStore(t) ==
    LET i == get_index(key[t])
        a == ArcNew(heap)
    IN
    /\ pc[t] = "store"
    /\ Return(t, Some(a, seen[t] + 1),
              [buckets EXCEPT ![i][pos[t]] = Released(t, a, FALSE)],
              [heap EXCEPT ![a] = seen[t] + 1])
    /\ UNCHANGED ghost_vars

IncrNext ==
    \E t \in Threads :
        \/ IncrInsert(t)
        \/ IncrGet(t)
        \/ IncrUpdate(t)
        \/ AcquireBucket(t)
        \/ InsertMiss(t)
        \/ InsertPush(t)
        \/ ScanHit(t)
        \/ AcquireValue(t)
        \/ GetClone(t)
        \/ IncrRead(t)
        \/ IncrStore(t)

SpecIncr == Init /\ [][IncrNext]_vars

\* The updaters whose update has returned.
Incremented == {t \in Updaters : op[t] = "update" /\ pc[t] = "idle"}

\* C19: update is an atomic read-modify-write.  With the key present with an
\* initial value and each updater calling update(k, increment) once, under
\* every interleaving: the value of k is the initial value plus the number
\* of updates that have returned, these returned the distinct values
\* initial + 1 .. initial + that number (so at the end initial + t, and
\* initial + 1 .. initial + t); between the read and the store of a
\* transformation no other call is inside the bucket, and a get returns the
\* result of a whole number of increments.
C19_AtomicIncrements ==
    LET initial == arg[1].v
        n == Cardinality(Incremented)
    IN
    Held(buckets, heap, 5) # {} =>
        /\ Held(buckets, heap, 5) = {initial + n}
        /\ {ret[t].val : t \in Incremented} = (initial + 1)..(initial + n)
        /\ \A t \in Updaters :
              /\ pc[t] = "store" =>
                    /\ seen[t] = initial + n
                    /\ \A u \in Threads \ {t} : ~HoldsBucket(u)
              /\ (pc[t] = "idle" /\ op[t] = "get") =>
                    ret[t].val \in initial..(initial + n)

\* Every updater has returned; one of them had read the key before.
C19_Witness ==
    /\ Incremented = Updaters
    /\ Held(buckets, heap, 5) = {arg[1].v + Cardinality(Updaters)}
    /\ \E t, u \in Updaters : ret[t].val < ret[u].val /\ t > u

(* ------------------------------------------------------------------ C20 *)
\* The lock of the value cell of entry e.
CellLock(e) == [w |-> e.vw, r |-> e.vr, poisoned |-> e.vp]

\* C20: a value-cell lock is never contended.  A thread holding a cell's
\* exclusive lock holds its bucket's exclusive lock, a thread holding a
\* cell's shared lock holds its bucket's shared lock, so a request for a
\* value-cell lock is always granted at once; remove never asks for one.
C20_CellLockUncontended ==
    /\ \A e \in Entries(buckets) :
          LET c == buckets[e[1]][e[2]] IN
          /\ c.vw # 0 => lock[e[1]].w = c.vw
          /\ c.vr \subseteq lock[e[1]].r
    /\ \A t \in Threads :
          /\ pc[t] = "vlock" =>
                IF op[t] = "get" THEN CanRead(CellLock(Matched(t)))
                                 ELSE CanWrite(CellLock(Matched(t)))
          /\ op[t] = "remove" =>
                (pc[t] \notin {"vlock", "body"} /\ CellLocksOf(t) = {})

\* Two get calls are at the same cell: one holds its shared lock, the other
\* asks for it.
C20_Witness ==
    \E t, u \in Threads :
        /\ t # u /\ key[t] = key[u]
        /\ pc[t] = "body" /\ t \in Matched(t).vr
        /\ pc[u] = "vlock" /\ op[u] = "get"

====
